---- MODULE Spec2Model ----
(***************************************************************************)
(* Model of scripts/run_pipeline.py: the stage orchestrator main(), its    *)
(* helpers ensure_dirs, load_raw_text and save_audit_log, the directory   *)
(* layout and the files the pipeline reads and writes.                    *)
(*                                                                         *)
(* One invocation of the script is one "run".  main() is split at every   *)
(* statement that can raise (a collaborator call, a file operation), so   *)
(* that an abort between two statements is a reachable state.  The file   *)
(* system outlives a run; RunAgain starts the next invocation.            *)
(***************************************************************************)
EXTENDS Integers, Sequences, FiniteSets, TLC

\* ------------------------------------------------------------------ bounds
MaxLen == 2      \* longest sequence a collaborator returns (one invocation)
SmallLen == 1    \* the same where invocations or days multiply the states
MaxDay == 2      \* calendar days 1..MaxDay (the date can change MaxDay-1 times)

\* SpecTwice is the scenario "the script is run, then run again"
Invocations == {1, 2}

Days == 1..MaxDay

\* ------------------------------------------------------- directory layout
EXTRACTED_DIR == "extracted/raw_text"
REQ_DIR == "requirements"
OUTPUT_JSON == "output/json"
OUTPUT_EXCEL == "output/excel"
AUDIT_DIR == "output/audit"
\* os.path.join(BASE_DIR, "validation"): the directory of reject_log.json
VALIDATION_DIR == "validation"

\* the list ensure_dirs iterates over, in its order
EnsureList == <<EXTRACTED_DIR, REQ_DIR, OUTPUT_JSON, OUTPUT_EXCEL, AUDIT_DIR>>

AllDirs == {EXTRACTED_DIR, REQ_DIR, OUTPUT_JSON, OUTPUT_EXCEL, AUDIT_DIR, VALIDATION_DIR}

\* ------------------------------------------------------------- file names
\* File names are strings, modelled as sequences of character codes so that
\* startswith and the lexicographic order of sorted() are computed.
PREFIX == <<82, 65, 87, 95, 84, 69, 88, 84, 95>>           \* "RAW_TEXT_"
NameA == PREFIX \o <<49>>                                  \* "RAW_TEXT_1"
NameB == PREFIX \o <<50>>                                  \* "RAW_TEXT_2"
NameOther == <<110, 111, 116, 101, 115>>                   \* "notes"
FileNames == {NameA, NameB, NameOther}
RawTexts == {1}

\* str.startswith
StartsWith(f, p) == Len(f) >= Len(p) /\ SubSeq(f, 1, Len(p)) = p

\* Python's < on str: lexicographic on code points, a proper prefix is smaller
RECURSIVE StrLess(_, _)
StrLess(a, b) ==
    IF b = <<>> THEN FALSE
    ELSE IF a = <<>> THEN TRUE
    ELSE IF Head(a) # Head(b) THEN Head(a) < Head(b)
    ELSE StrLess(Tail(a), Tail(b))

\* sorted(): the ascending list of a set of names
RECURSIVE Sorted(_)
Sorted(S) ==
    IF S = {} THEN <<>>
    ELSE LET m == CHOOSE x \in S : \A y \in S \ {x} : StrLess(x, y)
         IN <<m>> \o Sorted(S \ {m})

\* ------------------------------------------------------------------ values
SeqsUpTo(S, n) == UNION {[1..k -> S] : k \in 0..n}

Requirements == {1}
CoverageItems == {1}
\* two kinds of test case; the second carries a field the first lacks
TestCases == {[id |-> 1], [id |-> 2, title |-> 1]}
\* the test cases of the specification of two invocations
SmallCases == {[id |-> 1]}

\* file contents
NoFile == [kind |-> "absent", data |-> <<>>]
Partial == [kind |-> "partial", data |-> <<>>]

\* json.dump(obj, f, indent=2): the document holding the array obj
JsonDump(obj) == [kind |-> "json", data |-> obj]

\* pd.DataFrame(list of records).to_excel(index=False): one sheet, the header
\* row is the union of the records' field names, one row per record, a field a
\* record lacks is an empty cell; a cell is <<v>> when it holds v
NaN == <<>>
Columns(cases) == UNION {DOMAIN cases[i] : i \in 1..Len(cases)}
DataFrame(cases) ==
    [columns |-> Columns(cases),
     rows |-> [i \in 1..Len(cases) |->
                 [c \in Columns(cases) |->
                    IF c \in DOMAIN cases[i] THEN <<cases[i][c]>> ELSE NaN]]]
ToExcel(df) == [kind |-> "xlsx", data |-> df]

\* ------------------------------------------------- external collaborators
\* validate_testcases partitions its input, keeping order: mask[i] = TRUE
\* keeps case i, FALSE rejects it
RECURSIVE Select(_, _, _)
Select(s, mask, keep) ==
    IF s = <<>> THEN <<>>
    ELSE (IF Head(mask) = keep THEN <<Head(s)>> ELSE <<>>)
         \o Select(Tail(s), Tail(mask), keep)

\* deduplicate: the first occurrence of every case, in order
RECURSIVE Dedup(_)
Dedup(s) ==
    IF s = <<>> THEN <<>>
    ELSE LET d == Dedup(SubSeq(s, 1, Len(s) - 1))
             x == s[Len(s)]
         IN IF \E i \in 1..Len(d) : d[i] = x THEN d ELSE Append(d, x)

\* ------------------------------------------------------------------- state
VARIABLES
    dirs,        \* the directories that exist
    rawDir,      \* extracted/raw_text: file name -> content
    reqFile,     \* requirements/normalized_requirements.json
    rejectLog,   \* validation/reject_log.json
    jsonOut,     \* day -> output/json/banking_test_cases_<day>.json
    excelOut,    \* day -> output/excel/banking_test_cases_<day>.xlsx
    auditLog,    \* day -> output/audit/generation_trace_<day>.log (lines)
    today,       \* datetime.date.today()
    pc,          \* position in main()
    err,         \* the exception that ended the run, "none" if none
    raw_text, raw_file, requirements, coverage_items, generated_testcases,
    valid_testcases, rejected, final_testcases, json_out, excel_out,
    stdout,      \* lines printed by the run
    run,         \* number of the current invocation
    calls,       \* history: collaborator calls of the run, in order
    runAudit,    \* history: audit lines appended by the run, in order
    touched,     \* history: files the run opened for writing
    auditMark,   \* history: Len(runAudit) when the run entered its State
    errAt,       \* history: the position in main() where err was raised
    prev         \* history: what the previous run left and returned

disk == <<dirs, rawDir, reqFile, rejectLog, jsonOut, excelOut, auditLog>>
locals == <<raw_text, raw_file, requirements, coverage_items, generated_testcases,
            valid_testcases, rejected, final_testcases, json_out, excel_out>>
hist == <<calls, runAudit, touched, auditMark, errAt, prev>>
vars == <<disk, today, pc, err, locals, stdout, run, hist>>

\* the stage state machine read off the position in main()
StateOf(p) ==
    CASE p = "start" -> "Idle"
      [] p \in {"log_started", "load"} -> "LayoutReady"
      [] p \in {"log_loaded", "normalize", "write_req"} -> "RawLoaded"
      [] p \in {"log_normalized", "expand"} -> "Normalized"
      [] p \in {"log_expanded", "generate"} -> "Expanded"
      [] p \in {"log_generated", "validate", "write_reject"} -> "Generated"
      [] p \in {"log_rejected", "dedup"} -> "Validated"
      [] p \in {"log_final", "write_json", "log_json", "write_excel"} -> "Deduplicated"
      [] p \in {"log_excel", "log_completed", "print"} -> "Exported"
      [] p = "done" -> "Done"
      [] OTHER -> "Aborted"

State == StateOf(pc)

\* what main() holds before it has assigned anything
NoLocals ==
    /\ raw_text' = 0 /\ raw_file' = <<>> /\ requirements' = <<>>
    /\ coverage_items' = <<>> /\ generated_testcases' = <<>>
    /\ valid_testcases' = <<>> /\ rejected' = <<>> /\ final_testcases' = <<>>
    /\ json_out' = 0 /\ excel_out' = 0

\* what a run leaves behind and returned, kept when the next one starts
Snapshot ==
    [ended |-> pc, raw_text |-> raw_text, raw_file |-> raw_file, calls |-> calls,
     reqFile |-> reqFile, rejectLog |-> rejectLog, jsonOut |-> jsonOut,
     excelOut |-> excelOut]

\* the state before main() runs, over a raw-text directory holding files
\* named from names with contents from texts
InitWith(names, texts) ==
    /\ rawDir \in UNION {[S -> texts] : S \in SUBSET names}
    /\ dirs \in {D \in SUBSET AllDirs : DOMAIN rawDir # {} => EXTRACTED_DIR \in D}
    /\ reqFile = NoFile /\ rejectLog = NoFile
    /\ jsonOut = [d \in Days |-> NoFile] /\ excelOut = [d \in Days |-> NoFile]
    /\ auditLog = [d \in Days |-> <<>>]
    /\ today = 1
    /\ pc = "start" /\ err = "none" /\ errAt = "none"
    /\ raw_text = 0 /\ raw_file = <<>> /\ requirements = <<>>
    /\ coverage_items = <<>> /\ generated_testcases = <<>>
    /\ valid_testcases = <<>> /\ rejected = <<>> /\ final_testcases = <<>>
    /\ json_out = 0 /\ excel_out = 0
    /\ stdout = <<>> /\ run = 1
    /\ calls = <<>> /\ runAudit = <<>> /\ touched = {} /\ auditMark = 0
    /\ prev = [ended |-> "never"]

Init == InitWith(FileNames, RawTexts)

\* the history of the stage state machine: the number of audit lines the run
\* had appended when it entered its current State
Mark == auditMark' = IF StateOf(pc') # StateOf(pc) THEN Len(runAudit') ELSE auditMark

\* an uncaught exception ends the run
Abort(e) == pc' = "aborted" /\ err' = e /\ errAt' = pc
Goto(p) == pc' = p /\ UNCHANGED <<err, errAt>>

\* --------------------------------------------------------------- file I/O
\* open(path, "w") and the write that follows: the open fails when the
\* directory is missing (FileNotFoundError) or refuses (OSError) and leaves
\* the file alone; once opened the file is truncated, and a failing write
\* leaves a partial file
WriteOutcomes(d) == IF d \in dirs THEN {"ok", "openfail", "writefail"} ELSE {"nodir"}
After(cur, new, o) ==
    CASE o = "ok" -> new
      [] o = "writefail" -> Partial
      [] OTHER -> cur
ErrOf(o) == IF o = "nodir" THEN "FileNotFoundError" ELSE "OSError"
Opened(o) == o \in {"ok", "writefail"}

\* save_audit_log(message): append one line to the file of today's date
\* variant: the file is opened with "w"
SaveAuditLogTruncating(message) ==
    /\ auditLog' = [auditLog EXCEPT ![today] = <<message>>]
    /\ runAudit' = Append(runAudit, message)
    /\ touched' = touched \cup {<<AUDIT_DIR, today>>}

SaveAuditLog(message) ==
    /\ auditLog' = [auditLog EXCEPT ![today] = Append(@, message)]
    /\ runAudit' = Append(runAudit, message)
    /\ touched' = touched \cup {<<AUDIT_DIR, today>>}

\* a save_audit_log call of main(): it returns, or open/write raises
LogStep(at, message, next) ==
    /\ pc = at
    /\ \/ SaveAuditLog(message) /\ Goto(next)
       \/ Abort("OSError") /\ UNCHANGED <<auditLog, runAudit, touched>>
    /\ UNCHANGED <<dirs, rawDir, reqFile, rejectLog, jsonOut, excelOut, today,
                   locals, stdout, run, calls, prev>>
    /\ Mark

\* a collaborator call recorded in the history
Call(fn, arg, ok, val) == calls' = Append(calls, [fn |-> fn, arg |-> arg, ok |-> ok, val |-> val])

\* ------------------------------------------------------------ ensure_dirs
\* os.makedirs(d, exist_ok=True) for each d of the list: an existing
\* directory is left alone; creating a missing one can fail, and then the
\* directories before it in the list have been created
EnsureDirs ==
    /\ pc = "start"
    /\ \/ dirs' = dirs \cup {EnsureList[i] : i \in 1..Len(EnsureList)} /\ Goto("log_started")
       \/ \E i \in 1..Len(EnsureList) :
            /\ EnsureList[i] \notin dirs
            /\ dirs' = dirs \cup {EnsureList[j] : j \in 1..(i - 1)}
            /\ Abort("OSError")
    /\ UNCHANGED <<rawDir, reqFile, rejectLog, jsonOut, excelOut, auditLog, today,
                   locals, stdout, run, calls, runAudit, touched, prev>>
    /\ Mark

LogStarted == LogStep("log_started", <<"Pipeline started">>, "load")

\* ---------------------------------------------------------- load_raw_text
\* variant: the prefix filter is left out
MatchingFilesAnyName == Sorted(DOMAIN rawDir)

MatchingFiles == Sorted({f \in DOMAIN rawDir : StartsWith(f, PREFIX)})

\* variant: the first name of the sorted list is taken
LoadRawTextFirst ==
    /\ pc = "load"
    /\ LET files == MatchingFiles
           latest == files[1]
       IN IF files = <<>>
          THEN Abort("FileNotFoundError") /\ UNCHANGED <<raw_text, raw_file>>
          ELSE \/ raw_text' = rawDir[latest] /\ raw_file' = latest /\ Goto("log_loaded")
               \/ Abort("OSError") /\ UNCHANGED <<raw_text, raw_file>>
    /\ UNCHANGED <<disk, today, requirements, coverage_items, generated_testcases,
                   valid_testcases, rejected, final_testcases, json_out, excel_out,
                   stdout, run, calls, runAudit, touched, prev>>
    /\ Mark

LoadRawText ==
    /\ pc = "load"
    /\ LET files == MatchingFiles
           latest == files[Len(files)]
       IN IF files = <<>>
          THEN Abort("FileNotFoundError") /\ UNCHANGED <<raw_text, raw_file>>
          ELSE \/ raw_text' = rawDir[latest] /\ raw_file' = latest /\ Goto("log_loaded")
               \/ Abort("OSError") /\ UNCHANGED <<raw_text, raw_file>>
    /\ UNCHANGED <<disk, today, requirements, coverage_items, generated_testcases,
                   valid_testcases, rejected, final_testcases, json_out, excel_out,
                   stdout, run, calls, runAudit, touched, prev>>
    /\ Mark

LogLoaded == LogStep("log_loaded", <<"Loaded raw input", raw_file>>, "normalize")

\* ------------------------------------------------------- step 2: normalize
\* variant: the emptiness check is left out
NormalizeUnchecked(n) ==
    /\ pc = "normalize"
    /\ \/ \E res \in SeqsUpTo(Requirements, n) :
            /\ requirements' = res
            /\ Call("normalize_requirements", raw_text, TRUE, res)
            /\ Goto("write_req")
       \/ /\ Call("normalize_requirements", raw_text, FALSE, <<>>)
          /\ Abort("CollaboratorError")
          /\ UNCHANGED requirements
    /\ UNCHANGED <<disk, today, raw_text, raw_file, coverage_items, generated_testcases,
                   valid_testcases, rejected, final_testcases, json_out, excel_out,
                   stdout, run, runAudit, touched, prev>>
    /\ Mark

Normalize(n) ==
    /\ pc = "normalize"
    /\ \/ \E res \in SeqsUpTo(Requirements, n) :
            /\ requirements' = res
            /\ Call("normalize_requirements", raw_text, TRUE, res)
            /\ IF res = <<>> THEN Abort("ValueError") ELSE Goto("write_req")
       \/ /\ Call("normalize_requirements", raw_text, FALSE, <<>>)
          /\ Abort("CollaboratorError")
          /\ UNCHANGED requirements
    /\ UNCHANGED <<disk, today, raw_text, raw_file, coverage_items, generated_testcases,
                   valid_testcases, rejected, final_testcases, json_out, excel_out,
                   stdout, run, runAudit, touched, prev>>
    /\ Mark

\* variant: the snapshot is opened in append mode
WriteRequirementsAppend ==
    /\ pc = "write_req"
    /\ \E o \in WriteOutcomes(REQ_DIR) :
         /\ reqFile' = After(reqFile, JsonDump(reqFile.data \o requirements), o)
         /\ touched' = IF Opened(o) THEN touched \cup {<<REQ_DIR, 0>>} ELSE touched
         /\ IF o = "ok" THEN Goto("log_normalized") ELSE Abort(ErrOf(o))
    /\ UNCHANGED <<dirs, rawDir, rejectLog, jsonOut, excelOut, auditLog, today, locals,
                   stdout, run, calls, runAudit, prev>>
    /\ Mark

WriteRequirements ==
    /\ pc = "write_req"
    /\ \E o \in WriteOutcomes(REQ_DIR) :
         /\ reqFile' = After(reqFile, JsonDump(requirements), o)
         /\ touched' = IF Opened(o) THEN touched \cup {<<REQ_DIR, 0>>} ELSE touched
         /\ IF o = "ok" THEN Goto("log_normalized") ELSE Abort(ErrOf(o))
    /\ UNCHANGED <<dirs, rawDir, rejectLog, jsonOut, excelOut, auditLog, today, locals,
                   stdout, run, calls, runAudit, prev>>
    /\ Mark

LogNormalized == LogStep("log_normalized", <<"Normalized", Len(requirements)>>, "expand")

\* -------------------------------------------------- step 3: expand coverage
\* variant: an empty expansion is treated like an empty normalization
ExpandCoverageChecked(n) ==
    /\ pc = "expand"
    /\ \/ \E res \in SeqsUpTo(CoverageItems, n) :
            /\ coverage_items' = res
            /\ Call("expand_coverage", requirements, TRUE, res)
            /\ IF res = <<>> THEN Abort("ValueError") ELSE Goto("log_expanded")
       \/ /\ Call("expand_coverage", requirements, FALSE, <<>>)
          /\ Abort("CollaboratorError")
          /\ UNCHANGED coverage_items
    /\ UNCHANGED <<disk, today, raw_text, raw_file, requirements, generated_testcases,
                   valid_testcases, rejected, final_testcases, json_out, excel_out,
                   stdout, run, runAudit, touched, prev>>
    /\ Mark

ExpandCoverage(n) ==
    /\ pc = "expand"
    /\ \/ \E res \in SeqsUpTo(CoverageItems, n) :
            /\ coverage_items' = res
            /\ Call("expand_coverage", requirements, TRUE, res)
            /\ Goto("log_expanded")
       \/ /\ Call("expand_coverage", requirements, FALSE, <<>>)
          /\ Abort("CollaboratorError")
          /\ UNCHANGED coverage_items
    /\ UNCHANGED <<disk, today, raw_text, raw_file, requirements, generated_testcases,
                   valid_testcases, rejected, final_testcases, json_out, excel_out,
                   stdout, run, runAudit, touched, prev>>
    /\ Mark

\* variant: the audit call after the expansion is left out
LogExpandedSilent ==
    /\ pc = "log_expanded"
    /\ Goto("generate")
    /\ UNCHANGED <<disk, today, locals, stdout, run, calls, runAudit, touched, prev>>
    /\ Mark

LogExpanded == LogStep("log_expanded", <<"Expanded", Len(coverage_items)>>, "generate")

\* ---------------------------------------------------------- step 4: generate
\* variant: a failing generation is caught and replaced by an empty result
GenerateTestcasesCaught(n, T) ==
    /\ pc = "generate"
    /\ \/ \E res \in SeqsUpTo(T, n) :
            /\ generated_testcases' = res
            /\ Call("generate_testcases", coverage_items, TRUE, res)
            /\ Goto("log_generated")
       \/ /\ Call("generate_testcases", coverage_items, FALSE, <<>>)
          /\ generated_testcases' = <<>>
          /\ Goto("log_generated")
    /\ UNCHANGED <<disk, today, raw_text, raw_file, requirements, coverage_items,
                   valid_testcases, rejected, final_testcases, json_out, excel_out,
                   stdout, run, runAudit, touched, prev>>
    /\ Mark

\* variant: when the Generator raises, the run goes back to expanding coverage
GenerateTestcasesRetry(n, T) ==
    /\ pc = "generate"
    /\ \/ \E res \in SeqsUpTo(T, n) :
            /\ generated_testcases' = res
            /\ Call("generate_testcases", coverage_items, TRUE, res)
            /\ Goto("log_generated")
       \/ /\ Call("generate_testcases", coverage_items, FALSE, <<>>)
          /\ Goto("expand")
          /\ UNCHANGED generated_testcases
    /\ UNCHANGED <<disk, today, raw_text, raw_file, requirements, coverage_items,
                   valid_testcases, rejected, final_testcases, json_out, excel_out,
                   stdout, run, runAudit, touched, prev>>
    /\ Mark

GenerateTestcases(n, T) ==
    /\ pc = "generate"
    /\ \/ \E res \in SeqsUpTo(T, n) :
            /\ generated_testcases' = res
            /\ Call("generate_testcases", coverage_items, TRUE, res)
            /\ Goto("log_generated")
       \/ /\ Call("generate_testcases", coverage_items, FALSE, <<>>)
          /\ Abort("CollaboratorError")
          /\ UNCHANGED generated_testcases
    /\ UNCHANGED <<disk, today, raw_text, raw_file, requirements, coverage_items,
                   valid_testcases, rejected, final_testcases, json_out, excel_out,
                   stdout, run, runAudit, touched, prev>>
    /\ Mark

LogGenerated == LogStep("log_generated", <<"Generated", Len(generated_testcases)>>, "validate")

\* ---------------------------------------------------------- step 5: validate
ValidateTestcases ==
    /\ pc = "validate"
    /\ \/ \E mask \in [1..Len(generated_testcases) -> BOOLEAN] :
            LET valid == Select(generated_testcases, mask, TRUE)
                rej == Select(generated_testcases, mask, FALSE)
            IN /\ valid_testcases' = valid
               /\ rejected' = rej
               /\ Call("validate_testcases", generated_testcases, TRUE, <<valid, rej>>)
               /\ IF rej # <<>> THEN Goto("write_reject") ELSE Goto("dedup")
       \/ /\ Call("validate_testcases", generated_testcases, FALSE, <<>>)
          /\ Abort("CollaboratorError")
          /\ UNCHANGED <<valid_testcases, rejected>>
    /\ UNCHANGED <<disk, today, raw_text, raw_file, requirements, coverage_items,
                   generated_testcases, final_testcases, json_out, excel_out,
                   stdout, run, runAudit, touched, prev>>
    /\ Mark

\* variant: a failure to write the reject log is swallowed
WriteRejectLogUnchecked ==
    /\ pc = "write_reject"
    /\ \E o \in WriteOutcomes(VALIDATION_DIR) :
         /\ rejectLog' = After(rejectLog, JsonDump(rejected), o)
         /\ touched' = IF Opened(o) THEN touched \cup {<<VALIDATION_DIR, 0>>} ELSE touched
         /\ Goto("log_rejected")
    /\ UNCHANGED <<dirs, rawDir, reqFile, jsonOut, excelOut, auditLog, today, locals,
                   stdout, run, calls, runAudit, prev>>
    /\ Mark

WriteRejectLog ==
    /\ pc = "write_reject"
    /\ \E o \in WriteOutcomes(VALIDATION_DIR) :
         /\ rejectLog' = After(rejectLog, JsonDump(rejected), o)
         /\ touched' = IF Opened(o) THEN touched \cup {<<VALIDATION_DIR, 0>>} ELSE touched
         /\ IF o = "ok" THEN Goto("log_rejected") ELSE Abort(ErrOf(o))
    /\ UNCHANGED <<dirs, rawDir, reqFile, jsonOut, excelOut, auditLog, today, locals,
                   stdout, run, calls, runAudit, prev>>
    /\ Mark

LogRejected == LogStep("log_rejected", <<"Rejected", Len(rejected)>>, "dedup")

\* ------------------------------------------------------- step 6: de-duplicate
\* variant: the Deduplicator is handed everything the Generator returned
DeduplicateGenerated ==
    /\ pc = "dedup"
    /\ \/ /\ final_testcases' = Dedup(generated_testcases)
          /\ Call("deduplicate", generated_testcases, TRUE, Dedup(generated_testcases))
          /\ Goto("log_final")
       \/ /\ Call("deduplicate", generated_testcases, FALSE, <<>>)
          /\ Abort("CollaboratorError")
          /\ UNCHANGED final_testcases
    /\ UNCHANGED <<disk, today, raw_text, raw_file, requirements, coverage_items,
                   generated_testcases, valid_testcases, rejected, json_out, excel_out,
                   stdout, run, runAudit, touched, prev>>
    /\ Mark

Deduplicate ==
    /\ pc = "dedup"
    /\ \/ /\ final_testcases' = Dedup(valid_testcases)
          /\ Call("deduplicate", valid_testcases, TRUE, Dedup(valid_testcases))
          /\ Goto("log_final")
       \/ /\ Call("deduplicate", valid_testcases, FALSE, <<>>)
          /\ Abort("CollaboratorError")
          /\ UNCHANGED final_testcases
    /\ UNCHANGED <<disk, today, raw_text, raw_file, requirements, coverage_items,
                   generated_testcases, valid_testcases, rejected, json_out, excel_out,
                   stdout, run, runAudit, touched, prev>>
    /\ Mark

LogFinal == LogStep("log_final", <<"Final", Len(final_testcases)>>, "write_json")

\* ------------------------------------------------------- step 7: export JSON
\* variant: an export that is already there is kept
ExportJsonIfAbsent ==
    /\ pc = "write_json"
    /\ json_out' = today
    /\ IF jsonOut[today] # NoFile
       THEN Goto("log_json") /\ UNCHANGED <<jsonOut, touched>>
       ELSE \E o \in WriteOutcomes(OUTPUT_JSON) :
              /\ jsonOut' = [jsonOut EXCEPT
                               ![today] = After(@, JsonDump(final_testcases), o)]
              /\ touched' = IF Opened(o) THEN touched \cup {<<OUTPUT_JSON, today>>} ELSE touched
              /\ IF o = "ok" THEN Goto("log_json") ELSE Abort(ErrOf(o))
    /\ UNCHANGED <<dirs, rawDir, reqFile, rejectLog, excelOut, auditLog, today,
                   raw_text, raw_file, requirements, coverage_items, generated_testcases,
                   valid_testcases, rejected, final_testcases, excel_out,
                   stdout, run, calls, runAudit, prev>>
    /\ Mark

ExportJson ==
    /\ pc = "write_json"
    /\ json_out' = today
    /\ \E o \in WriteOutcomes(OUTPUT_JSON) :
         /\ jsonOut' = [jsonOut EXCEPT ![today] = After(@, JsonDump(final_testcases), o)]
         /\ touched' = IF Opened(o) THEN touched \cup {<<OUTPUT_JSON, today>>} ELSE touched
         /\ IF o = "ok" THEN Goto("log_json") ELSE Abort(ErrOf(o))
    /\ UNCHANGED <<dirs, rawDir, reqFile, rejectLog, excelOut, auditLog, today,
                   raw_text, raw_file, requirements, coverage_items, generated_testcases,
                   valid_testcases, rejected, final_testcases, excel_out,
                   stdout, run, calls, runAudit, prev>>
    /\ Mark

LogJson == LogStep("log_json", <<"Exported JSON", json_out>>, "write_excel")

\* ------------------------------------------------------ step 8: export Excel
\* variant: the sheet is built from the validated cases, before deduplication
ExportExcelValid ==
    /\ pc = "write_excel"
    /\ excel_out' = today
    /\ \E o \in WriteOutcomes(OUTPUT_EXCEL) :
         /\ excelOut' = [excelOut EXCEPT
                           ![today] = After(@, ToExcel(DataFrame(valid_testcases)), o)]
         /\ touched' = IF Opened(o) THEN touched \cup {<<OUTPUT_EXCEL, today>>} ELSE touched
         /\ IF o = "ok" THEN Goto("log_excel") ELSE Abort(ErrOf(o))
    /\ UNCHANGED <<dirs, rawDir, reqFile, rejectLog, jsonOut, auditLog, today,
                   raw_text, raw_file, requirements, coverage_items, generated_testcases,
                   valid_testcases, rejected, final_testcases, json_out,
                   stdout, run, calls, runAudit, prev>>
    /\ Mark

\* variant: a failure of to_excel is swallowed
ExportExcelUnchecked ==
    /\ pc = "write_excel"
    /\ excel_out' = today
    /\ \E o \in WriteOutcomes(OUTPUT_EXCEL) :
         /\ excelOut' = [excelOut EXCEPT
                           ![today] = After(@, ToExcel(DataFrame(final_testcases)), o)]
         /\ touched' = IF Opened(o) THEN touched \cup {<<OUTPUT_EXCEL, today>>} ELSE touched
         /\ Goto("log_excel")
    /\ UNCHANGED <<dirs, rawDir, reqFile, rejectLog, jsonOut, auditLog, today,
                   raw_text, raw_file, requirements, coverage_items, generated_testcases,
                   valid_testcases, rejected, final_testcases, json_out,
                   stdout, run, calls, runAudit, prev>>
    /\ Mark

ExportExcel ==
    /\ pc = "write_excel"
    /\ excel_out' = today
    /\ \E o \in WriteOutcomes(OUTPUT_EXCEL) :
         /\ excelOut' = [excelOut EXCEPT
                           ![today] = After(@, ToExcel(DataFrame(final_testcases)), o)]
         /\ touched' = IF Opened(o) THEN touched \cup {<<OUTPUT_EXCEL, today>>} ELSE touched
         /\ IF o = "ok" THEN Goto("log_excel") ELSE Abort(ErrOf(o))
    /\ UNCHANGED <<dirs, rawDir, reqFile, rejectLog, jsonOut, auditLog, today,
                   raw_text, raw_file, requirements, coverage_items, generated_testcases,
                   valid_testcases, rejected, final_testcases, json_out,
                   stdout, run, calls, runAudit, prev>>
    /\ Mark

\* variant: the message of the JSON export is repeated
LogExcelAsJson == LogStep("log_excel", <<"Exported JSON", json_out>>, "log_completed")

LogExcel == LogStep("log_excel", <<"Exported Excel", excel_out>>, "log_completed")

LogCompleted == LogStep("log_completed", <<"Pipeline completed successfully">>, "print")

\* print(...): the line reaches standard output, or the write to it raises
PrintSuccess ==
    /\ pc = "print"
    /\ \/ /\ stdout' = Append(stdout, "Test Case Generation Pipeline completed successfully")
          /\ Goto("done")
       \/ Abort("OSError") /\ UNCHANGED stdout
    /\ UNCHANGED <<disk, today, locals, run, calls, runAudit, touched, prev>>
    /\ Mark

\* ------------------------------------------------------------- environment
\* the calendar date changes
Tick ==
    /\ today < MaxDay
    /\ today' = today + 1
    /\ UNCHANGED <<disk, pc, err, errAt, locals, stdout, run, calls, runAudit, touched, prev>>
    /\ Mark

\* the script is invoked again after the previous invocation has ended
RunAgain ==
    /\ pc \in {"done", "aborted"}
    /\ run + 1 \in Invocations
    /\ run' = run + 1
    /\ pc' = "start" /\ err' = "none" /\ errAt' = "none"
    /\ NoLocals
    /\ stdout' = <<>> /\ calls' = <<>> /\ runAudit' = <<>> /\ touched' = {}
    /\ prev' = Snapshot
    /\ UNCHANGED <<disk, today>>
    /\ Mark

\* one statement of main(); n bounds the length of what a collaborator
\* returns, T is the set of test cases the Generator draws from
Step(n, T) ==
    \/ EnsureDirs \/ LogStarted \/ LoadRawText \/ LogLoaded
    \/ Normalize(n) \/ WriteRequirements \/ LogNormalized
    \/ ExpandCoverage(n) \/ LogExpanded
    \/ GenerateTestcases(n, T) \/ LogGenerated
    \/ ValidateTestcases \/ WriteRejectLog \/ LogRejected
    \/ Deduplicate \/ LogFinal
    \/ ExportJson \/ LogJson \/ ExportExcel \/ LogExcel
    \/ LogCompleted \/ PrintSuccess

\* one invocation
Next == Step(MaxLen, TestCases)

Spec == Init /\ [][Next]_vars

\* two successive invocations on one calendar day
NextTwice == Step(SmallLen, SmallCases) \/ RunAgain

SpecTwice == Init /\ [][NextTwice]_vars

\* one invocation during which the date may change
NextMidnight == Step(SmallLen, TestCases) \/ Tick

SpecMidnight == Init /\ [][NextMidnight]_vars

\* ================================================================ properties
Started == <<"Pipeline started">>
Completed == <<"Pipeline completed successfully">>

\* the collaborator calls of the run, by name
CallsTo(fn) == {i \in DOMAIN calls : calls[i].fn = fn}
Fns == [i \in DOMAIN calls |-> calls[i].fn]
AuditFiles == {<<AUDIT_DIR, d>> : d \in Days}
NothingExported ==
    /\ \A d \in Days : jsonOut[d] = NoFile /\ excelOut[d] = NoFile
    /\ touched \cap ({<<OUTPUT_JSON, d>> : d \in Days} \cup {<<OUTPUT_EXCEL, d>> : d \in Days}) = {}

\* the Normalizer has returned an empty sequence in this run
NormalizedEmpty ==
    \E i \in CallsTo("normalize_requirements") : calls[i].ok /\ calls[i].val = <<>>

\* C1: when the Normalizer returns an empty sequence the run aborts with the
\* empty-result error (ValueError) and nothing is written after the Normalizer
\* returned: normalized_requirements.json, the reject log and the exports are
\* not written, the audit log holds only the two entries appended before the
\* call, and no later collaborator is called.
C1_EmptyNormalizationAborts ==
    NormalizedEmpty =>
        /\ pc = "aborted" /\ err = "ValueError" /\ errAt = "normalize"
        /\ Fns = <<"normalize_requirements">>
        /\ touched \subseteq AuditFiles
        /\ reqFile = NoFile /\ rejectLog = NoFile /\ NothingExported
        /\ runAudit = <<Started, <<"Loaded raw input", raw_file>>>>
        /\ \A d \in Days : auditLog[d] = IF d = today THEN runAudit ELSE <<>>

C1_Witness ==
    /\ NormalizedEmpty /\ pc = "aborted" /\ err = "ValueError"
    /\ Len(runAudit) = 2 /\ REQ_DIR \in dirs

\* extracted/raw_text holds no file whose name starts with RAW_TEXT_
NoRawText == \A f \in DOMAIN rawDir : ~StartsWith(f, PREFIX)

\* C2: when extracted/raw_text holds no file whose name starts with RAW_TEXT_,
\* the run aborts in load_raw_text with the not-found error
\* (FileNotFoundError), no collaborator is called and the run's only audit
\* entry is "Pipeline started".
C2_NoRawTextAborts ==
    (NoRawText /\ pc \notin {"start", "log_started", "load"}) =>
        /\ pc = "aborted"
        /\ calls = <<>>
        /\ errAt = "load" => (err = "FileNotFoundError" /\ runAudit = <<Started>>)
        /\ errAt # "load" => (errAt \in {"start", "log_started"} /\ runAudit = <<>>)
        /\ reqFile = NoFile /\ rejectLog = NoFile /\ NothingExported

C2_Witness ==
    /\ NoRawText /\ DOMAIN rawDir # {}
    /\ pc = "aborted" /\ errAt = "load" /\ err = "FileNotFoundError"
    /\ runAudit = <<Started>>

RejectLogFile == <<VALIDATION_DIR, 0>>
KindsOf(log) == [i \in DOMAIN log |-> log[i][1]]
Logged(kind) == \E i \in DOMAIN runAudit : runAudit[i][1] = kind

\* C3: once the Validator has returned and main() is past the reject branch:
\* a non-empty rejected subset is what validation/reject_log.json contains; an
\* empty one leaves the file alone and appends no "Rejected" entry.  Runs
\* ended by an injected I/O fault (OSError) are left out, so that what
\* remains is the code's own doing.
C3_RejectLogHoldsRejected ==
    \A i \in CallsTo("validate_testcases") :
        (calls[i].ok /\ pc # "write_reject" /\ err # "OSError") =>
            LET rej == calls[i].val[2]
            IN /\ rej # <<>> => rejectLog = JsonDump(rej)
               /\ rej = <<>> => /\ RejectLogFile \notin touched
                                /\ rejectLog = NoFile
                                /\ ~Logged("Rejected")

\* C4: after ensure_dirs has returned, every directory of the layout exists,
\* the directory of reject_log.json included.
C4_LayoutComplete ==
    (pc # "start" /\ errAt # "start") => AllDirs \subseteq dirs

\* C5: when the run aborts inside the Export stage, at the spreadsheet export,
\* no artifact of the Export stage has been written: neither export file was
\* opened for writing by this run.
C5_NoExportOfFailedStage ==
    (pc = "aborted" /\ errAt = "write_excel") =>
        touched \cap ({<<OUTPUT_JSON, d>> : d \in Days} \cup {<<OUTPUT_EXCEL, d>> : d \in Days}) = {}

\* a step that takes the stage state machine from one state to the next
\* (not into Aborted, not the start of a new invocation)
Transition ==
    /\ StateOf(pc') # StateOf(pc)
    /\ StateOf(pc) # "Idle"
    /\ StateOf(pc') \notin {"Aborted", "Idle"}

\* C6 (as claimed): every transition of the stage state machine is followed by
\* an audit entry before the next transition is taken, the transition into
\* Validated with nothing rejected included.
C6_AuditAfterEveryTransition ==
    [][Transition => Len(runAudit) > auditMark]_vars

\* C6 (amended): every transition of the stage state machine is followed by an
\* audit entry before the next transition is taken, except the transition into
\* Validated when the Validator rejected nothing, which is followed by none.
C6_AuditAfterTransitionUnlessNoneRejected ==
    [][Transition =>
         IF StateOf(pc) = "Validated" /\ rejected = <<>>
         THEN Len(runAudit) = auditMark
         ELSE Len(runAudit) > auditMark]_vars

C6_Witness ==
    /\ pc = "done" /\ rejected = <<>> /\ ~Logged("Rejected")
    /\ Len(runAudit) = 9

\* the audit entries main() appends on a complete pass, from what it holds
ExpectedAudit ==
    <<Started, <<"Loaded raw input", raw_file>>, <<"Normalized", Len(requirements)>>,
      <<"Expanded", Len(coverage_items)>>, <<"Generated", Len(generated_testcases)>>>>
    \o (IF rejected # <<>> THEN <<<<"Rejected", Len(rejected)>>>> ELSE <<>>)
    \o <<<<"Final", Len(final_testcases)>>, <<"Exported JSON", json_out>>,
         <<"Exported Excel", excel_out>>, Completed>>

\* C7: a run that completes has appended, in this order: started, loaded raw
\* input, normalized count, expanded count, generated count, rejected count
\* (only when something was rejected), final count, exported JSON path,
\* exported Excel path, completed; so at least 9 entries, the last one
\* "Pipeline completed successfully".
C7_AuditOrderOfCompleteRun ==
    pc = "done" =>
        /\ KindsOf(runAudit) = KindsOf(ExpectedAudit)
        /\ \A i \in DOMAIN runAudit : runAudit[i] = ExpectedAudit[i]
        /\ Len(runAudit) >= 9
        /\ runAudit[Len(runAudit)] = Completed

C7_Witness ==
    pc = "done" /\ Len(runAudit) = 10 /\ Logged("Rejected")

\* the order of the statements of main()
PcList ==
    <<"start", "log_started", "load", "log_loaded", "normalize", "write_req",
      "log_normalized", "expand", "log_expanded", "generate", "log_generated",
      "validate", "write_reject", "log_rejected", "dedup", "log_final",
      "write_json", "log_json", "write_excel", "log_excel", "log_completed",
      "print", "done">>
Pos(p) == CHOOSE i \in DOMAIN PcList : PcList[i] = p
\* the statement the run is at, or was at when it aborted
Where == IF pc = "aborted" THEN errAt ELSE pc
AllFns ==
    <<"normalize_requirements", "expand_coverage", "generate_testcases",
      "validate_testcases", "deduplicate">>
\* an abort caused by a collaborator that raised or a file operation that failed
FaultAbort == err \in {"CollaboratorError", "OSError", "FileNotFoundError"}

EmptyCoverage ==
    \E i \in CallsTo("expand_coverage") : calls[i].ok /\ calls[i].val = <<>>
NothingValid ==
    \E i \in CallsTo("validate_testcases") : calls[i].ok /\ calls[i].val[1] = <<>>

\* C8: an empty Coverage Expander result and an empty valid subset never abort
\* the run: after either, an abort is only ever a collaborator that raised or
\* a file operation that failed; the later collaborators are called on the
\* empty sequence, and a run that reaches Done has called all five
\* collaborators and, with nothing valid, both exports hold the empty set.
C8_EmptyResultsDoNotAbort ==
    /\ EmptyCoverage =>
         /\ pc = "aborted" => (FaultAbort /\ Pos(errAt) > Pos("expand"))
         /\ Pos(Where) > Pos("generate") =>
              \E i \in CallsTo("generate_testcases") : calls[i].arg = <<>>
         /\ pc = "done" => Fns = AllFns
    /\ NothingValid =>
         /\ pc = "aborted" => (FaultAbort /\ Pos(errAt) > Pos("validate"))
         /\ Pos(Where) > Pos("dedup") =>
              \E i \in CallsTo("deduplicate") : calls[i].arg = <<>>
         /\ pc = "done" =>
              /\ Fns = AllFns
              /\ final_testcases = <<>>
              /\ jsonOut[json_out] = JsonDump(<<>>)
              /\ excelOut[excel_out] = ToExcel(DataFrame(<<>>))

C8_Witness ==
    /\ pc = "done" /\ EmptyCoverage /\ NothingValid /\ rejected # <<>>
    /\ jsonOut[json_out] = JsonDump(<<>>)

\* the statement of main() that calls a collaborator
PcOfFn(fn) ==
    CASE fn = "normalize_requirements" -> "normalize"
      [] fn = "expand_coverage" -> "expand"
      [] fn = "generate_testcases" -> "generate"
      [] fn = "validate_testcases" -> "validate"
      [] fn = "deduplicate" -> "dedup"
ExportFiles == {<<OUTPUT_JSON, d>> : d \in Days} \cup {<<OUTPUT_EXCEL, d>> : d \in Days}
\* the files main() writes after the call of a collaborator
FilesAfter(fn) ==
    CASE fn = "normalize_requirements" -> {<<REQ_DIR, 0>>, RejectLogFile} \cup ExportFiles
      [] fn = "deduplicate" -> ExportFiles
      [] OTHER -> {RejectLogFile} \cup ExportFiles
\* the number of audit entries main() appends before the call of a collaborator
AuditsBefore(fn) ==
    CASE fn = "normalize_requirements" -> 2
      [] fn = "expand_coverage" -> 3
      [] fn = "generate_testcases" -> 4
      [] fn = "validate_testcases" -> 5
      [] fn = "deduplicate" -> IF rejected # <<>> THEN 6 ELSE 5

\* C9: when a collaborator raises, the run aborts at that call: it is the
\* last call of the run and the only call of that collaborator, no file that
\* main() writes after it has been opened, no audit entry has been appended
\* after it, "Pipeline completed successfully" is neither logged nor printed.
C9_CollaboratorErrorAborts ==
    \A i \in DOMAIN calls :
        ~calls[i].ok =>
            /\ i = Len(calls)
            /\ pc = "aborted" /\ err = "CollaboratorError"
            /\ errAt = PcOfFn(calls[i].fn)
            /\ Cardinality(CallsTo(calls[i].fn)) = 1
            /\ touched \cap FilesAfter(calls[i].fn) = {}
            /\ Len(runAudit) = AuditsBefore(calls[i].fn)
            /\ ~Logged("Pipeline completed successfully")
            /\ stdout = <<>>

C9_Witness ==
    /\ pc = "aborted" /\ err = "CollaboratorError" /\ errAt = "dedup"
    /\ ~calls[Len(calls)].ok /\ rejectLog = JsonDump(rejected) /\ rejected # <<>>

\* C10: when the script is run twice in succession on the same day, both runs
\* complete, the second loads the same raw-text file and every collaborator
\* returns what it returned in the first run, then after the second run
\* normalized_requirements.json, the JSON export, the spreadsheet export and
\* reject_log.json hold exactly what they held after the first run, and no
\* other output file exists.
C10_SecondRunOverwritesSame ==
    ( /\ run = 2 /\ pc = "done" /\ prev.ended = "done"
      /\ prev.raw_file = raw_file /\ prev.raw_text = raw_text
      /\ prev.calls = calls ) =>
        /\ reqFile = prev.reqFile /\ reqFile = JsonDump(requirements)
        /\ rejectLog = prev.rejectLog
        /\ jsonOut = prev.jsonOut /\ jsonOut[json_out] = JsonDump(final_testcases)
        /\ excelOut = prev.excelOut
        /\ \A d \in Days \ {today} : jsonOut[d] = NoFile /\ excelOut[d] = NoFile

C10_Witness ==
    /\ run = 2 /\ pc = "done" /\ prev.ended = "done"
    /\ prev.raw_file = raw_file /\ prev.calls = calls
    /\ rejected # <<>> /\ rejectLog = JsonDump(rejected)
    /\ <<REQ_DIR, 0>> \in touched /\ <<OUTPUT_JSON, today>> \in touched

\* ------------------------------------------------------------------- C11
IsPrefix(s, t) == Len(s) <= Len(t) /\ SubSeq(t, 1, Len(s)) = s

\* C11: the audit log is append-only across invocations: in every step each
\* day's audit file keeps its earlier content as a prefix, a file that changes
\* is the file of the current date and gains exactly one line, and every
\* save_audit_log call that returns adds exactly its message as the last line
\* of the file of the date on which it is called.
C11_AuditAppendOnly ==
    [][/\ \A d \in Days :
            /\ IsPrefix(auditLog[d], auditLog'[d])
            /\ Len(auditLog'[d]) # Len(auditLog[d]) =>
                 /\ d = today
                 /\ Len(auditLog'[d]) = Len(auditLog[d]) + 1
                 /\ Len(runAudit') = Len(runAudit) + 1
       /\ Len(runAudit') = Len(runAudit) + 1 =>
            auditLog'[today] = Append(auditLog[today], runAudit'[Len(runAudit')])
      ]_vars

\* the second invocation has appended to a file that holds the first's lines
C11_Witness ==
    /\ run = 2 /\ Len(runAudit) >= 2
    /\ Len(auditLog[today]) > Len(runAudit)
    /\ prev.ended = "done"

\* ------------------------------------------------------------------- C12
\* json.load of an exported document: the array it holds
JsonLoad(file) == file.data
\* the records read back from the exported sheet: one per row, made of the
\* row's non-empty cells under their column names
SheetRecords(file) ==
    LET df == file.data IN
    [i \in 1..Len(df.rows) |->
        [c \in {k \in df.columns : df.rows[i][k] # NaN} |-> df.rows[i][c][1]]]
\* what the Deduplicator returned in this run
Deduplicated == calls[CHOOSE i \in CallsTo("deduplicate") : calls[i].ok].val

\* C12: after a run has reached Done, the JSON export and the spreadsheet
\* export it wrote hold the same records: each read back gives exactly the
\* sequence the Deduplicator returned, with as many records and, per record,
\* the same fields and values.
C12_ExportsHoldSameRecords ==
    pc = "done" =>
        /\ jsonOut[json_out].kind = "json"
        /\ excelOut[excel_out].kind = "xlsx"
        /\ JsonLoad(jsonOut[json_out]) = Deduplicated
        /\ SheetRecords(excelOut[excel_out]) = Deduplicated
        /\ Len(excelOut[excel_out].data.rows) = Len(jsonOut[json_out].data)
        /\ \A i \in DOMAIN Deduplicated :
              SheetRecords(excelOut[excel_out])[i] = JsonLoad(jsonOut[json_out])[i]

\* a completed run that exported two records with different fields, so that
\* the sheet has an empty cell
C12_Witness ==
    /\ pc = "done"
    /\ Len(final_testcases) = 2
    /\ DOMAIN final_testcases[1] # DOMAIN final_testcases[2]
    /\ \E c \in excelOut[excel_out].data.columns : excelOut[excel_out].data.rows[1][c] = NaN

\* ------------------------------------------------------------------- C13
\* what call number i of a run is handed: the raw text for the Normalizer,
\* the valid subset for the Deduplicator, otherwise what call i - 1 returned
Handed(i) ==
    IF i = 1 THEN raw_text
    ELSE IF i = 5 THEN calls[4].val[1]
    ELSE calls[i - 1].val

\* C13: the collaborators are called in the fixed order Normalizer, Coverage
\* Expander, Generator, Validator, Deduplicator, each at most once per run,
\* none before its predecessor has returned, each with exactly the value its
\* predecessor returned (the Deduplicator with the Validator's valid subset);
\* the exports are written only after the Deduplicator has returned.
C13_CollaboratorsInOrder ==
    /\ Len(calls) <= Len(AllFns)
    /\ \A i \in DOMAIN calls :
          /\ calls[i].fn = AllFns[i]
          /\ i > 1 => calls[i - 1].ok
          /\ calls[i].arg = Handed(i)
    /\ touched \cap ExportFiles # {} => Len(calls) = Len(AllFns) /\ calls[Len(AllFns)].ok

\* all five have been called, the Validator having rejected something, and
\* an export has been written
C13_Witness ==
    /\ Len(calls) = 5 /\ calls[5].ok
    /\ calls[4].val[2] # <<>> /\ calls[4].val[1] # <<>>
    /\ touched \cap ExportFiles # {}

\* ------------------------------------------------------------------- C14
\* load_raw_text on its own, over more directories: a name whose number has
\* two digits, a name that stops short of the prefix, and two contents
NameTen == PREFIX \o <<49, 48>>                            \* "RAW_TEXT_10"
NameBare == <<82, 65, 87, 95, 84, 69, 88, 84>>             \* "RAW_TEXT"
LoadNames == FileNames \cup {NameTen, NameBare}
LoadTexts == {1, 2}

InitLoad == InitWith(LoadNames, LoadTexts)
NextLoad == EnsureDirs \/ LogStarted \/ LoadRawText \/ LogLoaded
SpecLoad == InitLoad /\ [][NextLoad]_vars

Prefixed == {f \in DOMAIN rawDir : StartsWith(f, PREFIX)}
\* load_raw_text has returned
Loaded == Pos(Where) > Pos("load")
NotFoundInLoad == pc = "aborted" /\ errAt = "load" /\ err = "FileNotFoundError"

\* C14: once load_raw_text has returned, the name it returned starts with
\* RAW_TEXT_, every other file with that prefix has a lexicographically smaller
\* name, and the text is that file's content; a file without the prefix is
\* never selected; the call fails with FileNotFoundError exactly when no file
\* has the prefix.
C14_LoadsGreatestPrefixed ==
    /\ Loaded =>
          /\ raw_file \in Prefixed
          /\ \A f \in Prefixed \ {raw_file} : StrLess(f, raw_file)
          /\ raw_text = rawDir[raw_file]
    /\ NotFoundInLoad => Prefixed = {}
    /\ (Prefixed = {} /\ Pos(Where) >= Pos("load")) => pc = "load" \/ NotFoundInLoad

\* RAW_TEXT_2 was selected although RAW_TEXT_10 and files without the prefix
\* are there, and the files differ in content
C14_Witness ==
    /\ Loaded /\ raw_file = NameB
    /\ {NameA, NameTen, NameOther, NameBare} \subseteq DOMAIN rawDir
    /\ rawDir[NameB] # rawDir[NameTen] /\ rawDir[NameB] # rawDir[NameOther]

\* ------------------------------------------------------------------- C15
\* the exit status of the interpreter: 0 when main() returned, 1 when an
\* exception left it, -1 while it still runs
ExitCode == IF pc = "done" THEN 0 ELSE IF pc = "aborted" THEN 1 ELSE -1
SuccessMessage == "Test Case Generation Pipeline completed successfully"
SuccessReported == (\E i \in DOMAIN stdout : stdout[i] = SuccessMessage) \/ ExitCode = 0

\* C15: success (the message on standard output, exit status 0) is reported
\* only by a run that has reached Done, after both exports were written and
\* the closing audit entry was appended; a run that aborted has printed no
\* success message and exits with a non-zero status.
C15_SuccessOnlyAfterDone ==
    /\ SuccessReported =>
          /\ pc = "done"
          /\ jsonOut[json_out] = JsonDump(final_testcases)
          /\ excelOut[excel_out] = ToExcel(DataFrame(final_testcases))
          /\ Len(runAudit) > 0 /\ runAudit[Len(runAudit)] = Completed
    /\ pc = "aborted" => stdout = <<>> /\ ExitCode # 0 /\ err # "none"

\* a run has printed the success message and ended with status 0
C15_Witness == SuccessReported /\ stdout = <<SuccessMessage>> /\ ExitCode = 0

\* ------------------------------------------------------------------- C16
\* C16: in every run that reaches Done, the exported set is no longer than
\* the valid subset, which is no longer than what the Generator returned:
\* len(final_testcases) <= len(valid_testcases) <= len(generated_testcases).
C16_CountsNeverGrow ==
    pc = "done" =>
        /\ Len(final_testcases) <= Len(valid_testcases)
        /\ Len(valid_testcases) <= Len(generated_testcases)
        /\ Len(JsonLoad(jsonOut[json_out])) <= Len(calls[4].val[1])
        /\ Len(calls[4].val[1]) <= Len(calls[3].val)

\* a completed run in which deduplication removed a valid case
C16_Witness ==
    /\ pc = "done"
    /\ 0 < Len(final_testcases) /\ Len(final_testcases) < Len(valid_testcases)
    /\ Len(valid_testcases) <= Len(generated_testcases)

\* ------------------------------------------------------------------- C17
\* main() is past the statement at p and that statement did not fail
Past(p) == Pos(Where) > Pos(p)

\* C17: a run never resumes from what an earlier run left behind: it starts
\* with no result in memory, the Normalizer is handed the content of the
\* latest raw-text file, and every artifact the run has written is a function
\* of the results of its own collaborator calls alone, whatever the files
\* held before.  Hence two runs that differ only in leftover files write
\* identical artifacts.
C17_NoResumption ==
    /\ pc = "start" => calls = <<>> /\ requirements = <<>> /\ final_testcases = <<>>
    /\ calls # <<>> => calls[1].arg = rawDir[raw_file] /\ raw_file = MatchingFiles[Len(MatchingFiles)]
    /\ Past("write_req") => reqFile = JsonDump(calls[1].val)
    /\ (Past("write_reject") /\ Len(calls) >= 4 /\ calls[4].ok /\ calls[4].val[2] # <<>>) =>
          rejectLog = JsonDump(calls[4].val[2])
    /\ Past("write_json") => jsonOut[json_out] = JsonDump(calls[5].val)
    /\ Past("write_excel") => excelOut[excel_out] = ToExcel(DataFrame(calls[5].val))

\* the second invocation has exported over files the first one left, the
\* first having ended with other content in them
C17_Witness ==
    /\ run = 2 /\ Past("write_excel")
    /\ prev.ended # "never"
    /\ prev.jsonOut[json_out] \notin {NoFile, jsonOut[json_out]}
    /\ prev.excelOut[excel_out] \notin {NoFile, excelOut[excel_out]}

\* ------------------------------------------------------------------- C18
\* every call and every file operation returns or raises, so a run that can
\* take a step eventually takes one
SpecFair == Init /\ [][Next]_vars /\ WF_vars(Next)

Terminal == {"done", "aborted"}
\* a step of the run that ends it in Aborted
AbortStep == Next /\ pc' = "aborted"
\* a step leaves a terminal state alone and otherwise moves forward in main()
\* or to Aborted
Forward ==
    IF pc \in Terminal THEN pc' = pc
    ELSE pc' = pc \/ pc' = "aborted" \/ Pos(pc') > Pos(pc)
\* ensure_dirs finds every directory of its list in place
LayoutThere == \A i \in DOMAIN EnsureList : EnsureList[i] \in dirs

\* C18: every run eventually ends in Done or in Aborted (one program counter,
\* so exactly one of them); no step leaves Done or Aborted and none goes back
\* to an earlier statement; and Aborted is reachable from every non-terminal
\* state: a step to Aborted is enabled there, except at ensure_dirs when every
\* directory already exists, whose only step leads to the first audit call,
\* where one is.
C18_RunEndsOnceAndOnlyForward ==
    /\ <>(pc \in Terminal)
    /\ [][Forward]_vars
    /\ [](pc \notin Terminal =>
            \/ ENABLED AbortStep
            \/ pc = "start" /\ LayoutThere /\ ENABLED (Next /\ pc' = "log_started"))

\* a run has aborted from the last non-terminal statement, and so has ended
C18_Witness == pc = "aborted" /\ errAt = "print" /\ Len(calls) = 5

\* ------------------------------------------------------------------- C19
\* the audit entries of this run that start with kind
Entries(kind) == {i \in DOMAIN runAudit : runAudit[i][1] = kind}

\* C19: the audit log never announces an artifact that was not written: a
\* "Normalized N" entry of a run implies normalized_requirements.json was
\* written by this run and holds its N requirements; "Rejected N" implies
\* reject_log.json holds this run's N rejected cases; "Exported JSON: p" and
\* "Exported Excel: p" imply the file p was written by this run and holds its
\* final set; "Pipeline completed successfully" implies both exports exist.
C19_AuditAnnouncesOnlyWritten ==
    /\ \A i \in Entries("Normalized") :
          /\ <<REQ_DIR, 0>> \in touched
          /\ reqFile = JsonDump(calls[1].val)
          /\ runAudit[i][2] = Len(reqFile.data)
    /\ \A i \in Entries("Rejected") :
          /\ <<VALIDATION_DIR, 0>> \in touched
          /\ rejectLog = JsonDump(calls[4].val[2])
          /\ runAudit[i][2] = Len(rejectLog.data)
    /\ \A i \in Entries("Exported JSON") :
          /\ <<OUTPUT_JSON, runAudit[i][2]>> \in touched
          /\ jsonOut[runAudit[i][2]] = JsonDump(calls[5].val)
    /\ \A i \in Entries("Exported Excel") :
          /\ <<OUTPUT_EXCEL, runAudit[i][2]>> \in touched
          /\ excelOut[runAudit[i][2]] = ToExcel(DataFrame(calls[5].val))
    /\ Entries("Pipeline completed successfully") # {} =>
          /\ \E d \in Days : jsonOut[d].kind = "json"
          /\ \E d \in Days : excelOut[d].kind = "xlsx"

\* a run has announced all four artifacts, the date having changed between
\* the JSON export and its announcement
C19_Witness ==
    /\ Entries("Normalized") # {} /\ Entries("Rejected") # {}
    /\ Entries("Exported JSON") # {} /\ Entries("Pipeline completed successfully") # {}
    /\ <<OUTPUT_JSON, 1>> \in touched
    /\ \A k \in DOMAIN auditLog[1] : auditLog[1][k][1] # "Exported JSON"

\* ------------------------------------------------------------------- C20
\* the dates of the audit files this run appended to
AuditDays == {d \in Days : <<AUDIT_DIR, d>> \in touched}

\* C20: in every run that reaches Done, the JSON export, the spreadsheet
\* export and the audit file the run appended to carry the same date stamp,
\* also when the calendar date changes while the run is in progress.
C20_OneDateStampPerRun ==
    pc = "done" =>
        /\ json_out = excel_out
        /\ AuditDays = {json_out}

====
